---- MODULE Spec2Model ----
(***************************************************************************)
(* Querya (src/agent.js): the agent reasoning loop, the model gateway with *)
(* its endpoint fallback, and the tool dispatch of class Querya.           *)
(*                                                                         *)
(* One sendMessage runs as a coroutine on the browser's event loop.  It    *)
(* suspends at the primary fetch, at the fallback fetch and at the joint   *)
(* wait for the tool executors (Promise.all); everything between two       *)
(* suspension points runs without interleaving and is one action here.     *)
(* User events (new chat, conversation switch, clear, settings) and the    *)
(* clock are the other actions; they interleave at the suspension points.  *)
(***************************************************************************)
EXTENDS Integers, Sequences, FiniteSets, TLC

VARIABLES
  conversations,          \* state.conversations: id -> conversation.messages
  currentConversationId,  \* state.currentConversationId
  isProcessing,           \* state.isProcessing
  settings,               \* state.settings.llm
  now,                    \* Date.now()
  nextConv,               \* number of conversations created so far
  pc,                     \* where the sendMessage coroutine is suspended
  convId,                 \* sendMessage/agentLoop local: the loop's conversation
  maxTurns,               \* agentLoop local
  headers,                \* callLLM local: the Authorization header built before the primary fetch
  body,                   \* callLLM local: the request body built before the primary fetch
  primaryErr,             \* callLLM local: err of the outer catch
  toolCalls,              \* agentLoop local: response.tool_calls being dispatched
  toolRuns,               \* the promises handed to Promise.all, one per tool call
  toolResults,            \* the values array Promise.all builds
  requests,               \* history: HTTP requests of the gateway call in progress
  responses,              \* history: how the fetches of the last gateway call settled
  gwCalls,                \* history: callLLM invocations of the agentLoop invocation
  lastData,               \* history: payloads returned by callLLM in this invocation
  lastOutcome,            \* history: how the agentLoop invocation ended
  loopAppended,           \* history: messages appended by the agentLoop invocation, per conversation
  sends,                  \* history: accepted sendMessage calls
  rejected,               \* history: where the loop stood at each sendMessage call that returned at line 401
  deleted,                \* history: context-menu deletions carried out
  uploads,                \* history: files handed to handleFiles
  modelCalls,             \* environment: the tool calls the upstream model asks for
  parsed,                 \* history: the calls of parseAPIResponse that SpecParse makes
  cache,                  \* this.cache: the model list stored under models_aipipe_<baseUrl>
  modelFetches            \* history: the calls of fetchAIpipeModels and what each returned

vars == <<conversations, currentConversationId, isProcessing, settings, now, nextConv,
          pc, convId, maxTurns, headers, body, primaryErr, toolCalls, toolRuns, toolResults,
          requests, responses, gwCalls, lastData, lastOutcome, loopAppended, sends, rejected,
          deleted, uploads, modelCalls, parsed, cache, modelFetches>>

(***************************************************************************)
(* Bounds of the exploration.                                              *)
(***************************************************************************)
\* submissions, new chats, clock ticks, deletions and uploads of one behaviour, taken together
MaxEvents == 2
\* tool calls of one model response
MaxCalls == 2
\* calls of parseAPIResponse that SpecParse makes
MaxParses == 2
\* calls of fetchAIpipeModels that SpecModels makes
MaxFetches == 2
\* tool calls of one model response while the user is at the conversation list
MaxUserCalls == 1

\* a loop test that is off by one: maxTurns-- >= 0
MaxTurnsOffByOne == 5 + 1

\* let maxTurns = 5
MaxTurns == 5

(***************************************************************************)
(* JavaScript values.  null and undefined are kept apart from every string *)
(* the program can build, JSON.stringify(null) = "null" included.          *)
(***************************************************************************)
null == "<null>"
undefined == "<undefined>"
NoConv == 0
NoId == -1

Truthy(v) == v # null /\ v # undefined /\ v # ""

\* a || b
Or(a, b) == IF Truthy(a) THEN a ELSE b

\* `${v}` inside a template literal
Str(v) == IF v = undefined THEN "undefined" ELSE IF v = null THEN "null" ELSE v

\* Array.prototype.join(sep) over strings; null and undefined elements print as ""
RECURSIVE Join(_, _)
Join(xs, sep) ==
  IF xs = <<>> THEN ""
  ELSE LET h == IF Head(xs) \in {null, undefined} THEN "" ELSE Head(xs) IN
       IF Len(xs) = 1 THEN h ELSE h \o sep \o Join(Tail(xs), sep)

(***************************************************************************)
(* Messages.  addMessage stores {id, role, content, timestamp}; agentLoop  *)
(* also pushes raw records without id: {role, content: null, tool_calls}   *)
(* and {role: 'tool', tool_call_id, name, content}.                        *)
(***************************************************************************)
Message(id, role, content) ==
  [id |-> id, role |-> role, content |-> content,
   tool_calls |-> <<>>, tool_call_id |-> undefined, name |-> undefined]

ToolCallsMessage(tcs) ==
  [id |-> NoId, role |-> "assistant", content |-> null,
   tool_calls |-> tcs, tool_call_id |-> undefined, name |-> undefined]

ToolMessage(tc, content) ==
  [id |-> NoId, role |-> "tool", content |-> content,
   tool_calls |-> <<>>, tool_call_id |-> tc.id, name |-> tc.name]

WelcomeText == "Welcome to **Querya** (AI Pipe mode). Paste your AI Pipe token in **Settings -> API Key** to get started."
DemoNotice == "_Demo mode_: add your **AI Pipe token** in Settings to use real models."
DemoResponse == "Demo response: add your AI Pipe token in Settings to query real models."
Unrecognized == "Received an unrecognized response format."

(***************************************************************************)
(* Tool call requests as the model emits them.  `name` is function.name,   *)
(* `fargs` is function.arguments (where the chat-completion protocol puts  *)
(* the serialized arguments), `arguments` is the top-level property.       *)
(***************************************************************************)
ArgsIBM == "{\"query\":\"IBM\"}"
ArgsBad == "{not json"
ArgsNull == "null"

ToolCall(id, name, fargs, arguments) ==
  [id |-> id, name |-> name, fargs |-> fargs, arguments |-> arguments]

\* the request of scenario A in the chat-completion wire shape
tcSearch == ToolCall("call_search", "web_search", ArgsIBM, undefined)
\* the same request with its payload where executeTool reads it
tcSearchTop == ToolCall("call_top", "web_search", undefined, ArgsIBM)
tcBogus == ToolCall("call_bogus", "bogus_tool", ArgsIBM, undefined)
tcMalformed == ToolCall("call_bad", "execute_code", ArgsBad, ArgsBad)
tcNullArgs == ToolCall("call_null", "web_search", ArgsNull, ArgsNull)

ToolCallUniverse == {tcSearch, tcSearchTop, tcBogus, tcMalformed, tcNullArgs}

(***************************************************************************)
(* JSON.parse on the argument payloads above: a value, or a SyntaxError.   *)
(***************************************************************************)
EmptyArgs == [type |-> "object", query |-> undefined, code |-> undefined]

JSONparse(s) ==
  CASE s = ArgsIBM -> [throws |-> FALSE, value |-> [EmptyArgs EXCEPT !.query = "IBM"]]
    [] s = "{}" -> [throws |-> FALSE, value |-> EmptyArgs]
    [] s = ArgsNull -> [throws |-> FALSE, value |-> [EmptyArgs EXCEPT !.type = "null"]]
    [] OTHER -> [throws |-> TRUE, value |-> EmptyArgs]

\* the argument parsing without the catch: a SyntaxError propagates
ParseArgsNoCatch(tc) ==
  IF Truthy(tc.arguments) THEN JSONparse(tc.arguments)
  ELSE [throws |-> FALSE, value |-> EmptyArgs]

\* executeTool, lines 581-586:
\*   let args = {}; try { if (toolCall.arguments) args = JSON.parse(...) } catch (_) { args = {}; }
ParseArgs(tc) ==
  IF Truthy(tc.arguments)
  THEN LET p == JSONparse(tc.arguments) IN
       IF p.throws THEN [throws |-> FALSE, value |-> EmptyArgs] ELSE p
  ELSE [throws |-> FALSE, value |-> EmptyArgs]

(***************************************************************************)
(* The executors (stubs).  Each destructures its argument in the parameter *)
(* list, which throws a TypeError when the argument is null.               *)
(***************************************************************************)
Raised(msg) == [raises |-> TRUE, message |-> msg, value |-> [error |-> msg]]
Returned(v) == [raises |-> FALSE, message |-> "", value |-> v]

executeWebSearch(args) ==
  IF args.type = "null" THEN Raised("Cannot destructure property 'query' of 'object null' as it is null.")
  ELSE Returned([status |-> "Simulated search for: " \o Str(args.query), items |-> <<>>])

executeCode(args) ==
  IF args.type = "null" THEN Raised("Cannot destructure property 'code' of 'object null' as it is null.")
  ELSE Returned([output |-> "Simulated execution of: " \o Str(args.code)])

processFile(args) ==
  IF args.type = "null" THEN Raised("Cannot destructure property 'fileId' of 'object null' as it is null.")
  ELSE Returned([result |-> "Simulated undefined on file undefined"])

createVisualization(args) ==
  IF args.type = "null" THEN Raised("Cannot destructure property 'data' of 'object null' as it is null.")
  ELSE Returned([chartUrl |-> "Simulated undefined chart titled \"undefined\""])

ToolName(tc) == Or(tc.name, "unknown")

UnknownToolResult(name) == [error |-> "Unknown tool: " \o name]

\* the switch of executeTool, lines 589-595
RunExecutor(name, args) ==
  CASE name = "web_search" -> executeWebSearch(args)
    [] name = "execute_code" -> executeCode(args)
    [] name = "process_file" -> processFile(args)
    [] name = "create_visualization" -> createVisualization(args)
    [] OTHER -> Returned(UnknownToolResult(name))

\* executeTool(toolCall): what the returned promise settles to.  An exception
\* of the argument parsing or of the executor rejects the promise.
executeTool(tc) ==
  IF ParseArgs(tc).throws THEN Raised("Unexpected token in JSON")
  ELSE RunExecutor(ToolName(tc), ParseArgs(tc).value)

\* JSON.stringify of a tool result
JSONstringify(r) ==
  CASE "status" \in DOMAIN r -> "{\"status\":\"" \o r.status \o "\",\"items\":[]}"
    [] "output" \in DOMAIN r -> "{\"output\":\"" \o r.output \o "\"}"
    [] "result" \in DOMAIN r -> "{\"result\":\"" \o r.result \o "\"}"
    [] "chartUrl" \in DOMAIN r -> "{\"chartUrl\":\"Simulated undefined chart titled \\\"undefined\\\"\"}"
    [] OTHER -> "{\"error\":\"" \o r.error \o "\"}"

(***************************************************************************)
(* Upstream payloads (the parsed JSON body of a 2xx response).             *)
(*   choices      {choices: [{message: {content, tool_calls?}}]}           *)
(*   choices_text {choices: [{text}]}            (content holds the text)  *)
(*   choices_null {choices: [null]}                                        *)
(*   candidates   {candidates: [{content: {parts: [{text}, ...]}}]}        *)
(*   string       a bare JSON string             (content holds it)        *)
(*   other        any other object, e.g. {}                                *)
(***************************************************************************)
Payload(shape, content, tcs, parts) ==
  [shape |-> shape, content |-> content, tool_calls |-> tcs, parts |-> parts]

Answer == "IBM is a tech company."

ChatCompletion(content, tcs) == Payload("choices", content, tcs, <<>>)

DemoPayload == ChatCompletion(DemoResponse, <<>>)

\* p => p.text || p, then join('')
PartText(p) == IF Truthy(p) THEN p ELSE "[object Object]"

RECURSIVE PartTexts(_)
PartTexts(parts) ==
  IF parts = <<>> THEN <<>> ELSE <<PartText(Head(parts))>> \o PartTexts(Tail(parts))

Parsed(content, tcs) == [throws |-> FALSE, content |-> content, tool_calls |-> tcs]
ParseThrows == [throws |-> TRUE, content |-> undefined, tool_calls |-> <<>>]

\* a normalizer that hands the first choice's tool_calls on to the loop
parseAPIResponseKeepingToolCalls(data) ==
  CASE data.shape = "choices" -> Parsed(Or(data.content, ""), data.tool_calls)
    [] data.shape = "choices_text" -> Parsed(Or(data.content, ""), <<>>)
    [] data.shape = "choices_null" -> ParseThrows
    [] data.shape = "candidates" -> Parsed(Join(PartTexts(data.parts), ""), <<>>)
    [] data.shape = "string" -> Parsed(data.content, <<>>)
    [] OTHER -> Parsed(Unrecognized, <<>>)

\* a normalizer that reads the candidates shape for other providers only
parseAPIResponseByProvider(data, provider) ==
  CASE data.shape = "choices" -> Parsed(Or(data.content, ""), <<>>)
    [] data.shape = "choices_text" -> Parsed(Or(data.content, ""), <<>>)
    [] data.shape = "choices_null" -> ParseThrows
    [] data.shape = "candidates" /\ provider # "aipipe" -> Parsed(Join(PartTexts(data.parts), ""), <<>>)
    [] data.shape = "string" -> Parsed(data.content, <<>>)
    [] OTHER -> Parsed(Unrecognized, <<>>)

\* parseAPIResponse(data, provider): the returned object has a content
\* property only, whatever the payload carries; provider is not read
parseAPIResponse(data, provider) ==
  CASE data.shape = "choices" -> Parsed(Or(data.content, ""), <<>>)
    [] data.shape = "choices_text" -> Parsed(Or(data.content, ""), <<>>)
    [] data.shape = "choices_null" -> ParseThrows
    [] data.shape = "candidates" -> Parsed(Join(PartTexts(data.parts), ""), <<>>)
    [] data.shape = "string" -> Parsed(data.content, <<>>)
    [] OTHER -> Parsed(Unrecognized, <<>>)

\* the normalizer the loop calls at line 456
AsWritten == "parseAPIResponse"
KeepingToolCalls == "parseAPIResponseKeepingToolCalls"

Normalize(N, data, provider) ==
  IF N = KeepingToolCalls THEN parseAPIResponseKeepingToolCalls(data)
  ELSE parseAPIResponse(data, provider)

(***************************************************************************)
(* callLLM, lines 492-497 and 513-520: the outbound request.               *)
(***************************************************************************)
\* typeof m.content === 'string' ? m.content : JSON.stringify(m.content)
ApiContent(c) ==
  IF c = null THEN "null" ELSE c

ApiMessage(m) ==
  [role |-> IF m.role = "tool" THEN "system" ELSE m.role, content |-> ApiContent(m.content)]

RECURSIVE messagesForApi(_)
messagesForApi(msgs) ==
  IF msgs = <<>> THEN <<>>
  ELSE LET m == ApiMessage(Head(msgs)) IN
       (IF Truthy(m.content) THEN <<m>> ELSE <<>>) \o messagesForApi(Tail(msgs))

DefaultModel == "openai/gpt-4o-mini"
DefaultMaxTokens == 2000
DefaultTemperature == "0.7"
BaseUrl == "https://aipipe.org"
OtherBaseUrl == "https://aipipe.example"

\* no entry of this.cache
NoList == <<>>

RequestBody(llm, msgs) ==
  [model |-> Or(llm.model, DefaultModel), messages |-> messagesForApi(msgs),
   max_tokens |-> llm.maxTokens, temperature |-> llm.temperature]

NoBody == [model |-> "", messages |-> <<>>, max_tokens |-> 0, temperature |-> ""]

PrimaryUrl(baseUrl) == baseUrl \o "/openrouter/v1/chat/completions"
FallbackUrl(baseUrl) == baseUrl \o "/openai/v1/chat/completions"

Request(url, h, b) == [url |-> url, authorization |-> h, body |-> b]

(***************************************************************************)
(* The program state as one record, so that a run of code between two      *)
(* suspension points is a function from state to state.                    *)
(***************************************************************************)
St ==
  [conversations |-> conversations, currentConversationId |-> currentConversationId,
   isProcessing |-> isProcessing, settings |-> settings, now |-> now,
   nextConv |-> nextConv, pc |-> pc, convId |-> convId, maxTurns |-> maxTurns,
   headers |-> headers, body |-> body, primaryErr |-> primaryErr,
   toolCalls |-> toolCalls, toolRuns |-> toolRuns, toolResults |-> toolResults,
   requests |-> requests, responses |-> responses,
   gwCalls |-> gwCalls, lastData |-> lastData, lastOutcome |-> lastOutcome,
   sends |-> sends]

Commit(s) ==
  /\ conversations' = s.conversations
  /\ currentConversationId' = s.currentConversationId
  /\ isProcessing' = s.isProcessing
  /\ settings' = s.settings
  /\ now' = s.now
  /\ nextConv' = s.nextConv
  /\ pc' = s.pc
  /\ convId' = s.convId
  /\ maxTurns' = s.maxTurns
  /\ headers' = s.headers
  /\ body' = s.body
  /\ primaryErr' = s.primaryErr
  /\ toolCalls' = s.toolCalls
  /\ toolRuns' = s.toolRuns
  /\ toolResults' = s.toolResults
  /\ requests' = s.requests
  /\ responses' = s.responses
  /\ gwCalls' = s.gwCalls
  /\ lastData' = s.lastData
  /\ lastOutcome' = s.lastOutcome
  /\ sends' = s.sends

\* the messages that state t holds beyond those of state s, per conversation
\* (code that only appends)
Appended(s, t) ==
  [c \in DOMAIN t.conversations |->
     LET old == IF c \in DOMAIN s.conversations THEN Len(s.conversations[c]) ELSE 0
         new == t.conversations[c]
     IN IF old < Len(new) THEN SubSeq(new, old + 1, Len(new)) ELSE <<>>]

LogOf(log, c) == IF c \in DOMAIN log THEN log[c] ELSE <<>>

(***************************************************************************)
(* addMessage(role, content, conversationId), lines 606-630.               *)
(***************************************************************************)
\* a store that puts the new message first: messages.unshift(m)
unshift(s, c, m) == [s EXCEPT !.conversations[c] = <<m>> \o @]

push(s, c, m) == [s EXCEPT !.conversations[c] = Append(@, m)]

\* an addMessage that ignores its conversationId argument
addMessageToCurrent(s, role, content, conversationId) ==
  LET c == s.currentConversationId IN
  IF c = NoConv THEN s
  ELSE IF c \notin DOMAIN s.conversations \/ content = null \/ content = undefined THEN s
  ELSE push(s, c, Message(s.now, role, content))

addMessage(s, role, content, conversationId) ==
  LET c == IF conversationId # NoConv THEN conversationId ELSE s.currentConversationId IN
  IF c = NoConv THEN s
  ELSE IF c \notin DOMAIN s.conversations \/ content = null \/ content = undefined THEN s
  ELSE push(s, c, Message(s.now, role, content))

\* loadConversation(id), lines 683-698
loadConversation(s, id) ==
  IF id = NoConv THEN s ELSE [s EXCEPT !.currentConversationId = id]

\* createNewConversation(), lines 675-681; each creation gets a fresh id
createNewConversation(s) ==
  LET id == s.nextConv + 1 IN
  loadConversation(
    [s EXCEPT !.conversations = [c \in DOMAIN @ \cup {id} |-> IF c = id THEN <<>> ELSE @[c]],
              !.nextConv = id],
    id)

(***************************************************************************)
(* agentLoop and callLLM between suspension points.  N is the response     *)
(* normalizer the loop applies to the gateway's payload.                   *)
(***************************************************************************)
\* agentLoop returns; sendMessage's finally block, lines 427-432.  The locals
\* of callLLM and agentLoop are gone, and no gateway call is in progress.
\* a return of sendMessage that leaves the flag set
FinishStillProcessing(s, outcome) ==
  [s EXCEPT !.pc = "idle", !.lastOutcome = outcome,
            !.maxTurns = 0, !.headers = "", !.body = NoBody, !.primaryErr = "",
            !.requests = <<>>]

Finish(s, outcome) ==
  [s EXCEPT !.isProcessing = FALSE, !.pc = "idle", !.lastOutcome = outcome,
            !.maxTurns = 0, !.headers = "", !.body = NoBody, !.primaryErr = "",
            !.requests = <<>>]

\* a catch block that swallows the error
IterationErrorSilent(s, message) == Finish(s, "error")

\* the catch block of the loop body, lines 479-483
IterationError(s, message) ==
  Finish(addMessage(s, "system", "Agent iteration error: " \o message, s.convId), "error")

RECURSIVE ToolNames(_)
ToolNames(tcs) ==
  IF tcs = <<>> THEN <<>> ELSE <<Head(tcs).name>> \o ToolNames(Tail(tcs))

\* the synchronous part of each executeTool call of the map, line 588
RECURSIVE AnnounceTools(_, _)
AnnounceTools(s, tcs) ==
  IF tcs = <<>> THEN s
  ELSE AnnounceTools(
         addMessage(s, "system", "Executing tool: " \o ToolName(Head(tcs)), s.currentConversationId),
         Tail(tcs))

Pending == [pending |-> TRUE]

\* lines 463-465, up to the await of Promise.all
StartTools(s, tcs) ==
  LET s1 == addMessage(s, "assistant", "Using tools: " \o Join(ToolNames(tcs), ", "), s.convId)
      s2 == push(s1, s.convId, ToolCallsMessage(tcs))
      s3 == AnnounceTools(s2, tcs)
  IN [s3 EXCEPT !.pc = "tools",
                !.toolCalls = tcs,
                !.toolRuns = [i \in 1..Len(tcs) |-> [settled |-> FALSE, outcome |-> executeTool(tcs[i])]],
                !.toolResults = [i \in 1..Len(tcs) |-> Pending]]

\* lines 456-478: interpret the payload callLLM returned
Interpret(N, s, data) ==
  LET s0 == [s EXCEPT !.lastData = Append(@, data), !.pc = "running"]
      response == Normalize(N, data, s0.settings.provider)
  IN IF response.throws THEN IterationError(s0, "Could not parse the API response.")
     ELSE LET s1 == IF Truthy(response.content)
                    THEN addMessage(s0, "assistant", response.content, s0.convId)
                    ELSE s0
          IN IF Len(response.tool_calls) > 0
             THEN StartTools(s1, response.tool_calls)
             ELSE Finish(s1, "normal")

\* callLLM up to the primary fetch, lines 490-523
callLLM(N, s) ==
  LET llm == s.settings
      s0 == [s EXCEPT !.gwCalls = @ + 1, !.requests = <<>>, !.responses = <<>>, !.body = NoBody,
                      !.headers = "", !.primaryErr = ""]
      b == RequestBody(llm, s.conversations[s.convId])
      h == "Bearer " \o llm.apiKey
  IN IF ~Truthy(llm.provider) THEN IterationError(s0, "No LLM provider configured.")
     ELSE IF ~Truthy(llm.apiKey) THEN Interpret(N, s0, DemoPayload)
     ELSE IF llm.provider # "aipipe"
       THEN IterationError(s0, "Only AI Pipe is supported in this build. (Provider forced to AI Pipe)")
     ELSE [s0 EXCEPT !.pc = "primary", !.body = b, !.headers = h,
                     !.requests = <<Request(PrimaryUrl(llm.baseUrl), h, b)>>]

\* while (maxTurns-- > 0), line 440
LoopTop(N, s) ==
  IF s.maxTurns > 0
  THEN callLLM(N, [s EXCEPT !.maxTurns = @ - 1])
  ELSE Finish([s EXCEPT !.maxTurns = @ - 1], "budget")

\* agentLoop(conversationId) up to its first suspension, lines 435-443
agentLoop(N, s) ==
  IF s.convId \notin DOMAIN s.conversations THEN Finish(s, "normal")
  ELSE LoopTop(N, [s EXCEPT !.maxTurns = MaxTurns])

(***************************************************************************)
(* Promise.all over the executeTool promises, lines 465-474.               *)
(***************************************************************************)

\* Promise.all stores the value of promise i at index i
PromiseAllStore(results, i, v) == [results EXCEPT ![i] = v]

\* toolResults.forEach((result, index) => ...), lines 466-474
RECURSIVE AppendResults(_, _)
AppendResults(s, index) ==
  IF index > Len(s.toolCalls) THEN s
  ELSE LET content == JSONstringify(s.toolResults[index])
           s1 == push(s, s.convId, ToolMessage(s.toolCalls[index], content))
           s2 == addMessage(s1, "tool", content, s.convId)
       IN AppendResults(s2, index + 1)

\* the promise of tool call i settles; Promise.all rejects with the first
\* rejection and fulfils once every promise has fulfilled
ToolSettled(N, s, i) ==
  LET run == s.toolRuns[i]
      s1 == [s EXCEPT !.toolRuns[i].settled = TRUE]
  IN IF run.outcome.raises THEN IterationError(s1, run.outcome.message)
     ELSE LET s2 == [s1 EXCEPT !.toolResults = PromiseAllStore(@, i, run.outcome.value)]
          IN IF \A j \in DOMAIN s2.toolRuns : s2.toolRuns[j].settled
             THEN LoopTop(N, AppendResults([s2 EXCEPT !.pc = "running"], 1))
             ELSE s2

(***************************************************************************)
(* What a fetch can come to, lines 523-531 and 536-547.                    *)
(***************************************************************************)
NoData == Payload("none", undefined, <<>>, <<>>)

HttpOk(data) == [kind |-> "ok", status |-> "200", message |-> "", data |-> data]
\* a 2xx response whose body is not JSON: resp.json() rejects
HttpBadJson == [kind |-> "badjson", status |-> "200", message |-> "Unexpected token < in JSON at position 0", data |-> NoData]
\* a non-2xx response; message is the body's error.message, "" when there is none
HttpStatus(status, message) == [kind |-> "status", status |-> status, message |-> message, data |-> NoData]
\* fetch rejects
HttpNetwork(message) == [kind |-> "network", status |-> "", message |-> message, data |-> NoData]

StatusText(status) ==
  CASE status = "401" -> "Unauthorized"
    [] status = "403" -> "Forbidden"
    [] status = "404" -> "Not Found"
    [] OTHER -> "Internal Server Error"

ErrText(o) == IF Truthy(o.message) THEN o.message ELSE o.status \o " " \o StatusText(o.status)

\* err.message of the error the primary attempt ends with, lines 524-529
PrimaryErrorMessage(o, b) ==
  IF o.kind = "status"
  THEN "AI Pipe error (" \o o.status \o "): " \o ErrText(o) \o ". Tip: ensure your token has access to **"
       \o b.model \o "**, or pick a listed model in Settings."
  ELSE o.message

\* err2.message of the error the fallback attempt ends with, lines 542-546
FallbackErrorMessage(o) ==
  IF o.kind = "status"
  THEN "AI Pipe (fallback) error (" \o o.status \o "): " \o ErrText(o)
  ELSE o.message

\* a retry that builds its request anew from the settings and the conversation
FallbackRequestFromSettings(s) ==
  Request(FallbackUrl(s.settings.baseUrl), "Bearer " \o s.settings.apiKey,
          RequestBody(s.settings, s.conversations[s.convId]))

\* the retry of the catch block, lines 532-541: the same headers and body
FallbackRequest(s) ==
  Request(FallbackUrl(s.settings.baseUrl), s.headers,
          [model |-> s.body.model, messages |-> s.body.messages,
           max_tokens |-> s.body.max_tokens, temperature |-> s.body.temperature])

\* the fetch to `endpoint` has settled as o
Responded(s, endpoint, o) ==
  [s EXCEPT !.responses = Append(@, [endpoint |-> endpoint, kind |-> o.kind,
                                     status |-> o.status, message |-> o.message])]

PrimarySettled(N, s, o) ==
  IF o.kind = "ok" THEN Interpret(N, Responded(s, "primary", o), o.data)
  ELSE [Responded(s, "primary", o) EXCEPT
                 !.primaryErr = PrimaryErrorMessage(o, s.body),
                 !.requests = Append(@, FallbackRequest(s)),
                 !.pc = "fallback"]

\* throw new Error(err2.message || err.message || 'Network error'), line 549
FallbackSettled(N, s, o) ==
  IF o.kind = "ok" THEN Interpret(N, Responded(s, "fallback", o), o.data)
  ELSE IterationError(Responded(s, "fallback", o),
                      Or(FallbackErrorMessage(o), Or(s.primaryErr, "Network error")))

\* the exploration has room for one more submission, new chat, clock tick,
\* deletion or upload
EventsLeft == sends + Len(rejected) + now + (nextConv - 1) + deleted + uploads < MaxEvents

(***************************************************************************)
(* sendMessage(), lines 398-433, up to the first suspension of agentLoop.  *)
(***************************************************************************)
sendMessagePrelude(s, input) ==
  LET s1 == IF ~Truthy(s.settings.apiKey) THEN addMessage(s, "assistant", DemoNotice, NoConv) ELSE s
      s2 == [s1 EXCEPT !.isProcessing = TRUE]
      s3 == IF s2.currentConversationId # NoConv THEN s2 ELSE createNewConversation(s2)
      s4 == [s3 EXCEPT !.convId = s3.currentConversationId]
  IN addMessage(s4, "user", input, s4.convId)

StartRun(s) ==
  [s EXCEPT !.sends = @ + 1, !.gwCalls = 0, !.lastData = <<>>, !.lastOutcome = "none",
            !.requests = <<>>, !.responses = <<>>,
            !.toolCalls = <<>>, !.toolRuns = <<>>, !.toolResults = <<>>]

\* line 401, return: nothing but the history of the call
sendMessageReturns ==
  /\ rejected' = Append(rejected, pc)
  /\ Commit(St)
  /\ UNCHANGED <<loopAppended, deleted, uploads, modelCalls, parsed, cache, modelFetches>>

\* the submission is taken and the loop runs to its first suspension
sendMessageRuns(N, input) ==
  LET s1 == sendMessagePrelude(StartRun(St), input)
      s2 == agentLoop(N, s1)
  IN /\ Commit(s2)
     /\ loopAppended' = Appended(s1, s2)
     /\ UNCHANGED <<rejected, deleted, uploads, modelCalls, parsed, cache, modelFetches>>

\* a sendMessage whose line 401 tests the input only
sendMessageWhileProcessing(N, input) ==
  /\ EventsLeft
  /\ IF ~Truthy(input) THEN sendMessageReturns ELSE sendMessageRuns(N, input)

sendMessage(N, input) ==
  /\ EventsLeft
  /\ IF ~Truthy(input) \/ isProcessing THEN sendMessageReturns ELSE sendMessageRuns(N, input)

\* a step of the suspended coroutine: the state after it, and its appends logged
Resume(s) ==
  /\ Commit(s)
  /\ UNCHANGED <<rejected, deleted, uploads, modelCalls, parsed, cache, modelFetches>>
  /\ loopAppended' = [c \in DOMAIN s.conversations |-> LogOf(loopAppended, c) \o Appended(St, s)[c]]

\* a user event: the loop's log is untouched
UserEvent(s) ==
  /\ Commit(s)
  /\ UNCHANGED <<loopAppended, rejected, deleted, uploads, modelCalls, parsed, cache, modelFetches>>

(***************************************************************************)
(* Inputs of the exploration.                                              *)
(***************************************************************************)
Token == "tok_1"
OtherToken == "tok_2"
Inputs == {"", "IBM"}

ToolCallLists == {<<>>, <<tcSearch>>, <<tcBogus, tcSearchTop>>}

Payloads ==
  {ChatCompletion(c, tcs) : c \in {null, Answer}, tcs \in ToolCallLists}
  \cup {Payload("choices_null", undefined, <<>>, <<>>),
        Payload("candidates", undefined, <<>>, <<"IBM is ", "a tech company.">>),
        Payload("candidates", undefined, <<>>, <<>>),
        Payload("string", Answer, <<>>, <<>>),
        Payload("string", "", <<>>, <<>>),
        Payload("other", undefined, <<>>, <<>>)}

Failures ==
  {HttpBadJson, HttpStatus("401", "Invalid token"), HttpStatus("500", ""),
   HttpNetwork("Failed to fetch"), HttpNetwork("")}

HttpOutcomes == {HttpOk(d) : d \in Payloads} \cup Failures

(***************************************************************************)
(* The program: actions.                                                   *)
(***************************************************************************)
SendMessage == \E input \in Inputs : sendMessage(AsWritten, input)

PrimaryResponse ==
  /\ pc = "primary"
  /\ \E o \in HttpOutcomes : Resume(PrimarySettled(AsWritten, St, o))

FallbackResponse ==
  /\ pc = "fallback"
  /\ \E o \in HttpOutcomes : Resume(FallbackSettled(AsWritten, St, o))

\* the new-chat button, line 303
NewChat ==
  /\ EventsLeft
  /\ UserEvent(createNewConversation(St))

\* a click on a conversation of the list, line 957
SelectConversation ==
  \E id \in DOMAIN conversations :
    /\ id # currentConversationId
    /\ UserEvent(loadConversation(St, id))

\* clearConversationMessages(), lines 700-710, confirmed by the user
clearConversationMessages ==
  /\ currentConversationId # NoConv
  /\ currentConversationId \in DOMAIN conversations
  /\ conversations[currentConversationId] # <<>>
  /\ UserEvent(loadConversation([St EXCEPT !.conversations[currentConversationId] = <<>>],
                                currentConversationId))

\* saveAndApplySettings(), lines 786-822: the form's key and model, when filled in
saveAndApplySettings ==
  \E key \in {"", Token}, model \in {"", "openai/gpt-4o"} :
    LET llm == [settings EXCEPT !.provider = "aipipe",
                                !.apiKey = Or(key, @),
                                !.model = Or(model, @)]
    IN /\ llm # settings
       /\ UserEvent([St EXCEPT !.settings = llm])

\* the clock advances
Tick ==
  /\ EventsLeft
  /\ UserEvent([St EXCEPT !.now = @ + 1])

Booted ==
  /\ settings \in {[provider |-> p, apiKey |-> k, model |-> DefaultModel,
                    maxTokens |-> DefaultMaxTokens, temperature |-> DefaultTemperature,
                    baseUrl |-> BaseUrl] : p \in {"aipipe", ""}, k \in {"", Token}}
  /\ now = 0
  /\ nextConv = 1
  /\ conversations = [c \in {1} |-> <<Message(0, "assistant", WelcomeText)>>]
  /\ currentConversationId = 1
  /\ isProcessing = FALSE
  /\ pc = "idle"
  /\ convId = NoConv
  /\ maxTurns = 0
  /\ headers = ""
  /\ body = NoBody
  /\ primaryErr = ""
  /\ toolCalls = <<>>
  /\ toolRuns = <<>>
  /\ toolResults = <<>>
  /\ requests = <<>>
  /\ responses = <<>>
  /\ gwCalls = 0
  /\ lastData = <<>>
  /\ lastOutcome = "none"
  /\ loopAppended = [c \in {1} |-> <<>>]
  /\ sends = 0
  /\ rejected = <<>>
  /\ deleted = 0
  /\ uploads = 0
  /\ parsed = <<>>
  /\ cache = [u \in {BaseUrl, OtherBaseUrl} |-> NoList]
  /\ modelFetches = <<>>

Init ==
  /\ Booted
  /\ modelCalls = <<>>

Next ==
  \/ SendMessage
  \/ PrimaryResponse
  \/ FallbackResponse
  \/ NewChat
  \/ SelectConversation
  \/ clearConversationMessages
  \/ saveAndApplySettings
  \/ Tick

Spec == Init /\ [][Next]_vars

(***************************************************************************)
(* The loop under a normalizer that hands tool calls on.  parseAPIResponse *)
(* returns {content} only, so under Spec the branch of lines 461-475 is    *)
(* never entered; SpecLoop runs agentLoop, callLLM and executeTool as they *)
(* are written, fed by response objects that carry the tool_calls of the   *)
(* payload.  The upstream model asks for the list modelCalls, or answers   *)
(* in text.                                                                *)
(***************************************************************************)
RECURSIVE SeqsUpTo(_, _)
SeqsUpTo(S, n) ==
  IF n = 0 THEN {<<>>}
  ELSE LET shorter == SeqsUpTo(S, n - 1) IN
       shorter \cup {Append(q, x) : q \in shorter, x \in S}

LoopPayloads ==
  {ChatCompletion(null, modelCalls), ChatCompletion(Answer, modelCalls),
   ChatCompletion(Answer, <<>>), ChatCompletion(null, <<>>)}

LoopFailures == {HttpStatus("500", ""), HttpNetwork("Failed to fetch")}

LoopHttpOutcomes == {HttpOk(d) : d \in LoopPayloads} \cup LoopFailures

\* SpecLoop follows one agentLoop invocation: the first submission that is taken
LoopSendMessage ==
  /\ sends = 0
  /\ \E input \in Inputs : Truthy(input) /\ sendMessage(KeepingToolCalls, input)

LoopPrimaryResponse ==
  /\ pc = "primary"
  /\ \E o \in LoopHttpOutcomes : Resume(PrimarySettled(KeepingToolCalls, St, o))

LoopFallbackResponse ==
  /\ pc = "fallback"
  /\ \E o \in LoopHttpOutcomes : Resume(FallbackSettled(KeepingToolCalls, St, o))

\* one of the executeTool promises settles, in any order
ToolCompletes ==
  /\ pc = "tools"
  /\ \E i \in DOMAIN toolRuns :
       /\ ~toolRuns[i].settled
       /\ Resume(ToolSettled(KeepingToolCalls, St, i))

InitLoop ==
  /\ Booted
  /\ modelCalls \in SeqsUpTo(ToolCallUniverse, MaxCalls) \ {<<>>}

NextLoop ==
  \/ LoopSendMessage
  \/ LoopPrimaryResponse
  \/ LoopFallbackResponse
  \/ ToolCompletes

SpecLoop == InitLoop /\ [][NextLoop]_vars

\* The fetch the loop awaits at `at` settles: the step that takes the loop on
\* from there.  Under NextLoop these are the steps of LoopPrimaryResponse and
\* of LoopFallbackResponse, which are enabled exactly while pc = at.
Settles(at) == pc = at /\ pc' \in {"idle", "primary", "fallback", "tools"}

\* One of the promises handed to Promise.all settles: the steps of ToolCompletes.
ToolSettles ==
  /\ pc = "tools"
  /\ \E i \in DOMAIN toolRuns :
       ~toolRuns[i].settled /\ toolRuns' = [toolRuns EXCEPT ![i].settled = TRUE]

\* every fetch and every tool execution that is outstanding settles
Settling ==
  /\ WF_pc(Settles("primary"))
  /\ WF_pc(Settles("fallback"))
  /\ WF_toolRuns(ToolSettles)

SpecLoopLive == SpecLoop /\ Settling

\* the same invocation with the user at the conversation list meanwhile
NextLoopUser ==
  \/ LoopSendMessage
  \/ LoopPrimaryResponse
  \/ LoopFallbackResponse
  \/ ToolCompletes
  \/ NewChat
  \/ SelectConversation

InitLoopUser ==
  /\ Booted
  /\ modelCalls \in SeqsUpTo(ToolCallUniverse, MaxUserCalls) \ {<<>>}

SpecLoopUser == InitLoopUser /\ [][NextLoopUser]_vars

(***************************************************************************)
(* parseAPIResponse on its own: it is applied to upstream payloads again   *)
(* and again, under whatever settings and conversation the program then    *)
(* has, and each call is logged with its result.                           *)
(***************************************************************************)
ParseResponse ==
  /\ Len(parsed) < MaxParses
  /\ \E data \in Payloads :
       parsed' = Append(parsed, [data |-> data, provider |-> settings.provider,
                                 response |-> parseAPIResponse(data, settings.provider)])
  /\ Commit(St)
  /\ UNCHANGED <<loopAppended, rejected, deleted, uploads, modelCalls, cache, modelFetches>>

NextParse ==
  \/ ParseResponse
  \/ saveAndApplySettings
  \/ clearConversationMessages

SpecParse == Init /\ [][NextParse]_vars

(***************************************************************************)
(* The message store under the user's hands: the context menu's delete     *)
(* (handleContextAction, lines 1181-1208) and the file upload              *)
(* (handleFiles, lines 1111-1120), next to the submissions, the gateway's  *)
(* answers, the clear button, the conversation list and the clock.         *)
(***************************************************************************)
\* conv.messages.filter(m => m.id !== msgId)
RECURSIVE WithoutId(_, _)
WithoutId(msgs, msgId) ==
  IF msgs = <<>> THEN <<>>
  ELSE (IF Head(msgs).id # msgId THEN <<Head(msgs)>> ELSE <<>>) \o WithoutId(Tail(msgs), msgId)

\* the identifiers the displayed messages offer to the context menu
Selectable(msgs) == {msgs[i].id : i \in DOMAIN msgs} \ {NoId}

\* case 'delete', lines 1203-1208, on the message the menu was opened on
deleteMessage ==
  /\ EventsLeft
  /\ currentConversationId \in DOMAIN conversations
  /\ \E msgId \in Selectable(conversations[currentConversationId]) :
       Commit(loadConversation(
                [St EXCEPT !.conversations[currentConversationId] = WithoutId(@, msgId)],
                currentConversationId))
  /\ deleted' = deleted + 1
  /\ UNCHANGED <<loopAppended, rejected, uploads, modelCalls, parsed, cache, modelFetches>>

FileNotice == "File uploaded: notes.txt (size: 12 bytes). Processing placeholder added."

\* handleFiles([file]) with one file of a supported type
handleFiles ==
  /\ EventsLeft
  /\ LET s == IF currentConversationId # NoConv THEN St ELSE createNewConversation(St)
     IN Commit(addMessage(s, "system", FileNotice, s.currentConversationId))
  /\ uploads' = uploads + 1
  /\ UNCHANGED <<loopAppended, rejected, deleted, modelCalls, parsed, cache, modelFetches>>

NextStore ==
  \/ SendMessage
  \/ PrimaryResponse
  \/ FallbackResponse
  \/ SelectConversation
  \/ NewChat
  \/ clearConversationMessages
  \/ deleteMessage
  \/ handleFiles
  \/ Tick

SpecStore == Init /\ [][NextStore]_vars

(***************************************************************************)
(* fetchAIpipeModels(token, baseUrl), lines 899-942, called one call after *)
(* the other by updateModelOptions.  r1 and r2 are what the two model      *)
(* endpoints answer for the token: a list of model names, or a failure.    *)
(***************************************************************************)
ModelsOk(names) == [ok |-> TRUE, names |-> names]
ModelsFailed == [ok |-> FALSE, names |-> <<>>]

\* the curated list of lines 929-934
FallbackModels == <<"openai/gpt-4o-mini", "openai/gpt-4o", "openai/gpt-4.1", "openai/gpt-3.5-turbo">>

\* Array.from(new Set(arr.filter(Boolean)))
RECURSIVE uniq(_)
uniq(arr) ==
  IF arr = <<>> THEN <<>>
  ELSE LET rest == uniq(SubSeq(arr, 1, Len(arr) - 1))
           last == arr[Len(arr)]
       IN IF ~Truthy(last) \/ \E i \in DOMAIN rest : rest[i] = last THEN rest
          ELSE Append(rest, last)

FetchResult(hit, throws, list) == [hit |-> hit, throws |-> throws, list |-> list]

\* this.cache.get(`models_aipipe_${baseUrl}`)
Cached(token, baseUrl) == cache[baseUrl]

fetchAIpipeModels(token, baseUrl, r1, r2) ==
  IF ~Truthy(token) THEN FetchResult(FALSE, TRUE, NoList)
  ELSE IF Cached(token, baseUrl) # NoList THEN FetchResult(TRUE, FALSE, Cached(token, baseUrl))
  ELSE FetchResult(FALSE, FALSE, uniq(r1.names \o r2.names \o FallbackModels))

ModelAnswers ==
  {ModelsFailed, ModelsOk(<<"openai/gpt-4o">>), ModelsOk(<<"private/model-a">>)}

updateModelOptions ==
  /\ Len(modelFetches) < MaxFetches
  /\ \E token \in {"", Token, OtherToken}, baseUrl \in {BaseUrl, OtherBaseUrl},
        r1 \in ModelAnswers, r2 \in {ModelsFailed, ModelsOk(<<"private/model-b">>)} :
       LET result == fetchAIpipeModels(token, baseUrl, r1, r2) IN
       /\ modelFetches' = Append(modelFetches, [token |-> token, baseUrl |-> baseUrl, result |-> result])
       /\ cache' = IF result.throws \/ result.hit THEN cache
                   ELSE [cache EXCEPT ![baseUrl] = result.list]
  /\ Commit(St)
  /\ UNCHANGED <<loopAppended, rejected, deleted, uploads, modelCalls, parsed>>

NextModels == updateModelOptions

SpecModels == Init /\ [][NextModels]_vars

(***************************************************************************)
(* Vocabulary of the properties.                                           *)
(***************************************************************************)
\* what the agentLoop invocation appended to its own conversation
LoopLog == LogOf(loopAppended, convId)

\* the agentLoop invocation has returned
Terminated == pc = "idle" /\ lastOutcome # "none"

OfRole(msgs, role) == SelectSeq(msgs, LAMBDA m : m.role = role)

Contents(msgs) == [i \in DOMAIN msgs |-> msgs[i].content]

ExecutingNotices == {"Executing tool: " \o ToolName(tc) : tc \in ToolCallUniverse}

\* a system message that reports a failure
IsDiagnostic(m) == m.role = "system" /\ m.content \notin ExecutingNotices

Registered == {"web_search", "execute_code", "process_file", "create_visualization"}

RECURSIVE CallsRequested(_)
CallsRequested(datas) ==
  IF datas = <<>> THEN 0 ELSE Len(Head(datas).tool_calls) + CallsRequested(Tail(datas))

(***************************************************************************)
(* C1 (as stated): after an agentLoop invocation whose gateway response    *)
(* held no tool calls, the loop has appended exactly one assistant message *)
(* to its conversation and made no further gateway call.                   *)
(***************************************************************************)
C1_OneAssistantMessage ==
  (Terminated /\ Len(lastData) >= 1 /\ lastData[1].tool_calls = <<>>)
    => (Len(OfRole(LoopLog, "assistant")) = 1 /\ gwCalls = 1)

(***************************************************************************)
(* C1 (amended): after an agentLoop invocation whose gateway response held *)
(* no tool calls and normalizes to non-empty text, the loop has appended   *)
(* exactly one assistant message, carrying that text, to its conversation, *)
(* has made no further gateway call and has ended normally.                *)
(***************************************************************************)
C1_OneAssistantMessageForText ==
  (/\ Terminated
   /\ Len(lastData) >= 1
   /\ lastData[1].tool_calls = <<>>
   /\ ~parseAPIResponse(lastData[1], settings.provider).throws
   /\ Truthy(parseAPIResponse(lastData[1], settings.provider).content))
    => (/\ Contents(OfRole(LoopLog, "assistant")) = <<parseAPIResponse(lastData[1], settings.provider).content>>
        /\ gwCalls = 1
        /\ lastOutcome = "normal")

C1_Witness ==
  /\ Terminated
  /\ lastData = <<ChatCompletion(Answer, <<>>)>>
  /\ Contents(OfRole(LoopLog, "assistant")) = <<Answer>>
  /\ currentConversationId # convId

C3_ToolCallsTaken ==
  \A k \in DOMAIN lastData :
    (lastData[k].shape = "choices" /\ lastData[k].tool_calls # <<>>)
      => /\ \E j \in DOMAIN LoopLog : LoopLog[j] = ToolCallsMessage(lastData[k].tool_calls)
         /\ (k = Len(lastData) /\ gwCalls = k) => (pc = "tools" /\ toolCalls = lastData[k].tool_calls)

(***************************************************************************)
(* C4: scenario A.  From an empty conversation, with a credential, "IBM"   *)
(* against a model that first asks for web_search({query:"IBM"}) and then  *)
(* answers in text ends with the conversation holding exactly: user "IBM", *)
(* the assistant message with the tool call, the tool message with the     *)
(* simulated search for IBM, the assistant's answer; no error message.     *)
(***************************************************************************)
C4_ScenarioA ==
  (/\ Terminated
   /\ Truthy(settings.apiKey)
   /\ Len(lastData) >= 1
   /\ lastData[1] = ChatCompletion(null, <<tcSearch>>)
   /\ convId \in DOMAIN conversations
   /\ conversations[convId] # <<>>
   /\ Head(conversations[convId]) = Message(Head(conversations[convId]).id, "user", "IBM"))
    => LET c == conversations[convId] IN
       /\ Len(c) = 4
       /\ c[2].role = "assistant" /\ c[2].tool_calls = <<tcSearch>>
       /\ c[3].role = "tool"
       /\ c[3].content = "{\"status\":\"Simulated search for: IBM\",\"items\":[]}"
       /\ c[4].role = "assistant" /\ c[4].content = Answer
       /\ lastOutcome = "normal"

C8_UnknownToolContinues ==
  \A k \in DOMAIN lastData :
    \A j \in DOMAIN lastData[k].tool_calls :
      LET tc == lastData[k].tool_calls[j] IN
      (tc.name \notin Registered /\ k = Len(lastData))
        => /\ ~Terminated
           /\ pc = "tools" => toolRuns[j].outcome.value = [error |-> "Unknown tool: bogus_tool"]

(***************************************************************************)
(* C9: a tool call whose argument payload is not well-formed JSON does not *)
(* make executeTool raise: its executor runs with the empty argument       *)
(* object and a result is produced.                                        *)
(***************************************************************************)
Malformed(tc) == tc.arguments = ArgsBad

C10_RequestsInOrder ==
  /\ Len(requests) <= 2
  /\ Len(requests) >= 1 => requests[1].url = "https://aipipe.org/openrouter/v1/chat/completions"
  /\ Len(requests) = 2 =>
       /\ requests[2].url = "https://aipipe.org/openai/v1/chat/completions"
       /\ requests[2].body = requests[1].body
  /\ pc = "primary" => Len(requests) = 1
  /\ pc = "fallback" => Len(requests) = 2

C10_PrimaryFailureStep ==
  (pc = "primary" /\ pc' # "primary" /\ lastData' = lastData)
    => /\ pc' = "fallback"
       /\ lastOutcome' = "none"
       /\ requests' = Append(requests, requests'[2])
       /\ LogOf(loopAppended', convId) = LogOf(loopAppended, convId)

C10_Fallback == []C10_RequestsInOrder /\ [][C10_PrimaryFailureStep]_vars

C10_Witness ==
  /\ pc = "fallback"
  /\ Len(requests) = 2
  /\ requests[2].body = requests[1].body
  /\ settings.model # requests[1].body.model

(***************************************************************************)
(* C11: when the primary endpoint has answered with HTTP 200, the gateway  *)
(* call makes no request to the fallback endpoint, whatever the body of    *)
(* the response is.                                                        *)
(***************************************************************************)
C11_NoFallbackAfter200 ==
  (Len(responses) >= 1 /\ responses[1].endpoint = "primary" /\ responses[1].status = "200")
    => /\ pc # "fallback"
       /\ Len(requests) <= 1
       /\ Len(responses) = 1

\* the string s holds the string part
Contains(s, part) ==
  \/ part = ""
  \/ \E i \in 1..(Len(s) - Len(part) + 1) : SubSeq(s, i, i + Len(part) - 1) = part

\* both fetches of the last gateway call failed
BothFailed ==
  /\ Len(responses) = 2
  /\ responses[1].kind # "ok"
  /\ responses[2].kind # "ok"

\* the invocation ended with the gateway's error
GatewayFailed == Terminated /\ lastOutcome = "error" /\ BothFailed

\* what the loop's last message tells the user
LastText == IF LoopLog = <<>> THEN "" ELSE LoopLog[Len(LoopLog)].content

\* what identifies a failed response: its HTTP status, or the message of the
\* network or parsing error
FailureText(r) == IF r.kind = "status" THEN r.status ELSE r.message

(***************************************************************************)
(* C12: when both the primary and the fallback request of a gateway call   *)
(* have failed, the error the gateway raises (shown as the loop's system   *)
(* message) carries the primary failure's status or message.               *)
(***************************************************************************)
C12_ErrorCarriesPrimary ==
  GatewayFailed => Contains(LastText, FailureText(responses[1]))

\* the hint about the credential or the model identifier, line 528
Hint == "Tip: ensure your token has access to"

(***************************************************************************)
(* C13: when both requests of a gateway call have failed and the primary   *)
(* failure was HTTP 401, 403 or 404, the error raised (the loop's system   *)
(* message) includes the hint about the credential or model identifier.    *)
(***************************************************************************)
C13_HintOnCredentialFailure ==
  (/\ GatewayFailed
   /\ responses[1].kind = "status"
   /\ responses[1].status \in {"401", "403", "404"})
    => Contains(LastText, Hint)

\* The settings form never empties the key and never unsets the provider
\* (lines 788-789), so a key or provider that is missing now was missing
\* when the invocation's gateway call was made.
NoKey == ~Truthy(settings.apiKey)
NoProvider == ~Truthy(settings.provider)

(***************************************************************************)
(* C14: a gateway call made with no API key configured returns the canned  *)
(* demo content, and no request goes to the primary or to the fallback     *)
(* endpoint.                                                               *)
(***************************************************************************)
C14_DemoWithoutKey ==
  /\ (pc \in {"primary", "fallback"} \/ requests # <<>>) => headers # "Bearer "
  /\ (Terminated /\ gwCalls >= 1 /\ NoKey)
       => /\ responses = <<>>
          /\ lastData = <<DemoPayload>>

(***************************************************************************)
(* C15: a gateway call made with no provider or with no credential         *)
(* configured does not raise: it returns the canned demo response, and the *)
(* loop appends it as an assistant message and appends no system error     *)
(* message.                                                                *)
(***************************************************************************)
C15_ConfigurationErrorRecovered ==
  (Terminated /\ gwCalls >= 1 /\ (NoProvider \/ NoKey))
    => /\ lastOutcome = "normal"
       /\ lastData = <<DemoPayload>>
       /\ Contents(OfRole(LoopLog, "assistant")) = <<DemoResponse>>
       /\ OfRole(LoopLog, "system") = <<>>

\* the loop's last message names the fallback failure, or else the primary one
DescribesFailure ==
  LET f == FailureText(responses[2])
      p == FailureText(responses[1])
  IN IF f # "" THEN Contains(LastText, f)
     ELSE IF p # "" THEN Contains(LastText, p)
     ELSE Contains(LastText, "Network error")

(***************************************************************************)
(* C16: when a gateway call has failed (primary and fallback both failed), *)
(* the loop has appended exactly one system message, a diagnostic that     *)
(* describes the failure, to its conversation and to no other, and has     *)
(* terminated: the failed call is the invocation's last gateway call and   *)
(* no loop is left running.                                                *)
(***************************************************************************)
C16_GatewayFailureReported ==
  /\ BothFailed => pc = "idle"
  /\ GatewayFailed =>
       /\ Len(OfRole(LoopLog, "system")) = 1
       /\ Len(LoopLog) = 1
       /\ IsDiagnostic(LoopLog[1])
       /\ Contains(LastText, "Agent iteration error: ")
       /\ DescribesFailure
       /\ \A c \in DOMAIN loopAppended : c # convId => loopAppended[c] = <<>>
       /\ ~isProcessing
       /\ gwCalls = Len(lastData) + 1

C16_Witness ==
  /\ GatewayFailed
  /\ responses[1].status = "500"
  /\ responses[2].kind = "network"
  /\ currentConversationId # convId
  /\ conversations[convId][Len(conversations[convId])].role = "system"

C18_UnrecognizedShapeDisplayed ==
  (/\ Terminated
   /\ Len(lastData) = 1
   /\ lastData[1].shape \in {"string", "other"})
    => /\ ~parseAPIResponse(lastData[1], settings.provider).throws
       /\ lastOutcome = "normal"
       /\ Len(OfRole(LoopLog, "assistant")) = 1
       /\ Truthy(OfRole(LoopLog, "assistant")[1].content)

(***************************************************************************)
(* C19: at most one loop is in flight.  A loop is suspended exactly while  *)
(* isProcessing is set; a sendMessage call made while isProcessing is set  *)
(* returns without effect, at every suspension point of the loop: it       *)
(* starts no loop, and it leaves the conversations, the settings, the      *)
(* flag, the suspended loop and its requests as they were.                 *)
(***************************************************************************)
LoopInFlight == pc # "idle"

SubmittedWhileProcessing == isProcessing /\ (sends' # sends \/ rejected' # rejected)

WithoutEffect ==
  UNCHANGED <<conversations, currentConversationId, isProcessing, settings, now, nextConv,
              pc, convId, maxTurns, headers, body, primaryErr, toolCalls, toolRuns,
              toolResults, requests, responses, gwCalls, lastData, lastOutcome,
              loopAppended, sends>>

C19_OneLoopInFlight ==
  /\ [](LoopInFlight <=> isProcessing)
  /\ [][SubmittedWhileProcessing => WithoutEffect]_vars

C19_Witness ==
  /\ rejected = <<"fallback">>
  /\ sends = 1
  /\ isProcessing
  /\ pc = "fallback"
  /\ Len(requests) = 2
  /\ Len(OfRole(conversations[convId], "user")) = 1

(***************************************************************************)
(* C20: every dispatched tool call whose name is registered and whose      *)
(* argument payload is well-formed JSON has its executor invoked with the  *)
(* parsed payload: the promise of the call settles to what the executor    *)
(* makes of those arguments, "Simulated search for: IBM" for a web_search  *)
(* with {"query":"IBM"}.                                                   *)
(***************************************************************************)
\* the serialized arguments of a request: function.arguments on the wire
ArgumentPayload(tc) == IF tc.fargs # undefined THEN tc.fargs ELSE tc.arguments

WellFormed(tc) == Truthy(ArgumentPayload(tc)) /\ ~JSONparse(ArgumentPayload(tc)).throws

HasContent(m) == m.content # null /\ m.content # undefined

ReferencesEarlierCall(msgs, i) ==
  \E j \in 1..(i - 1) :
    /\ msgs[j].role = "assistant"
    /\ \E k \in DOMAIN msgs[j].tool_calls : msgs[j].tool_calls[k].id = msgs[i].tool_call_id

LoopStep == responses' # responses \/ toolRuns' # toolRuns \/ sends' # sends

LoopConversationChanges ==
  /\ convId \in DOMAIN conversations
  /\ conversations'[convId] # conversations[convId]

C23_OnlyLoopMutates == [][(isProcessing /\ LoopConversationChanges) => LoopStep]_vars

(***************************************************************************)
(* C24: a step of the loop only appends.  Whatever the step ends in, a     *)
(* response, a gateway error or an exception, every conversation's message *)
(* list before the step is a prefix of its list after the step.            *)
(***************************************************************************)
IsPrefix(a, b) == Len(a) <= Len(b) /\ SubSeq(b, 1, Len(a)) = a

C24_LoopOnlyAppends ==
  [][LoopStep => \A c \in DOMAIN conversations : IsPrefix(conversations[c], conversations'[c])]_vars

C24_Witness ==
  /\ Terminated
  /\ lastOutcome = "error"
  /\ Len(responses) = 2
  /\ Len(conversations[convId]) = 3
  /\ conversations[convId][1].content = WelcomeText
  /\ conversations[convId][2].role = "user"
  /\ conversations[convId][3].role = "system"

(***************************************************************************)
(* C25: the model list a call of fetchAIpipeModels takes from the cache    *)
(* was stored by an earlier call that fetched it with the same token and   *)
(* the same baseUrl: no list fetched with one token is returned to a call  *)
(* made with another.                                                      *)
(***************************************************************************)
FetchedBefore(i) ==
  \E j \in 1..(i - 1) :
    /\ ~modelFetches[j].result.hit
    /\ ~modelFetches[j].result.throws
    /\ modelFetches[j].token = modelFetches[i].token
    /\ modelFetches[j].baseUrl = modelFetches[i].baseUrl
    /\ modelFetches[j].result.list = modelFetches[i].result.list

C25_CacheKeyedByTokenAndBaseUrl ==
  \A i \in DOMAIN modelFetches : modelFetches[i].result.hit => FetchedBefore(i)

(***************************************************************************)
(* C26: provided every outstanding fetch and tool execution settles, an    *)
(* accepted submission leads to the return of sendMessage with             *)
(* isProcessing reset, however the loop ends; and isProcessing is set      *)
(* whenever a fetch or a tool execution of the submission is outstanding.  *)
(***************************************************************************)
Outstanding == pc \in {"primary", "fallback", "tools"}

RemoveAt(msgs, i) == SubSeq(msgs, 1, i - 1) \o SubSeq(msgs, i + 1, Len(msgs))

Deletes == deleted' # deleted

C28_DeleteRemovesOne ==
  [][Deletes => \E i \in DOMAIN conversations[currentConversationId] :
                  conversations'[currentConversationId]
                    = RemoveAt(conversations[currentConversationId], i)]_vars

====
